---- MODULE Spec2Model ----
(***************************************************************************)
(* Request/response correlation over a framed serial port, as implemented  *)
(* by the MCU_keyhole example scripts: gy33-i2c.js, sensor.js and the      *)
(* sibling scripts part_000 .. part_002.  The port code of part_000 is     *)
(* that of gy33-i2c.js line for line, so gy33-i2c.js stands for both.      *)
(*                                                                         *)
(* The port object carries two swappable handler slots (port.onData,       *)
(* port.onError), a receive buffer and a write cursor.  response(req)      *)
(* installs the resolve/reject functions of a fresh promise in the slots   *)
(* and writes req.  Promise reactions are microtasks: they are queued in   *)
(* `jobs` and run to completion before the next port event or timer.       *)
(***************************************************************************)
EXTENDS Integers, Sequences, FiniteSets, TLC

\* ------------------------------------------------------------------ bounds
RecvCap == 2
MaxChunk == 2
MaxReq == 2
MaxStream == 4
MaxPoll == 3
MaxOps == 2
MaxMarks == 2
MaxRuns == 2
MaxChain == 51
BatchCap == 6

\* ------------------------------------------------------------- vocabulary
Scripts == {"gy33-i2c.js", "part_001", "part_002", "sensor.js"}

Byte == {0, 10}

Chunks == UNION {[1..n -> Byte] : n \in 1..MaxChunk}

Cmds == {"r"}

\* The cursor is followed one byte past the buffer's capacity.
MaxPos == RecvCap + 1

VARIABLES
    script,         \* which script's port code runs
    recvBuffer,     \* port.recvBuffer, RecvCap bytes
    recvPosition,   \* port.recvPosition
    onData,         \* port.onData handler slot
    onError,        \* port.onError handler slot
    written,        \* the port.write(req) calls so far, in order
    closeCalls,     \* number of port.close() calls so far
    promises,       \* one record per response() call, in call order
    jobs,           \* the microtask queue (promise reactions)
    process,        \* "running", "uncaughtException" or "exit"
    errored,        \* history: the port has emitted an 'error' event
    unflushed,      \* history: bytes received since the cursor was last reset
    stream,         \* history: every byte received
    frames,         \* history: every frame handed to port.onData
    timer,          \* a setTimeout/setInterval timer of the polling loop is armed
    batch,          \* the Batch object: chain, index, resultCommand, cache
    outcome,        \* how the latest write/read/Batch call ended
    locals          \* the arguments of the bitSet/bitClear call in progress

vars == <<script, recvBuffer, recvPosition, onData, onError, written, closeCalls,
          promises, jobs, process, errored, unflushed, stream, frames, timer,
          batch, outcome, locals>>

portVars == <<recvBuffer, recvPosition, onData, onError>>

batchVars == <<batch, outcome, locals>>

\* ---------------------------------------------------------------- handlers
\* The values a handler slot can hold.
defaultErrorFunc == [fn |-> "defaultErrorFunc", req |-> 0]

defaultDataRecvFunc == [fn |-> "defaultDataRecvFunc", req |-> 0]

resolve(n) == [fn |-> "resolve", req |-> n]

reject(n) == [fn |-> "reject", req |-> n]

\* The terminator the 'data' handler looks for in the last byte of a chunk.
Terminator(s) == IF s = "sensor.js" THEN 10 ELSE 0

Min(a, b) == IF a < b THEN a ELSE b

\* Buffer.alloc(n): n zero bytes.
alloc(n) == [i \in 1..n |-> 0]

\* data.copy(target, targetStart): bytes that do not fit are not copied.
copy(data, target, targetStart) ==
    [i \in 1..Len(target) |->
        IF i > targetStart /\ i <= targetStart + Len(data)
        THEN data[i - targetStart]
        ELSE target[i]]

\* (mutant of received) the cursor is not reset when a frame is complete.
received_keepsCursor(s, buf, pos, data) ==
    LET copied == copy(data, buf, pos)
        end == pos + Len(data)
        complete == data[Len(data)] = Terminator(s)
        closed == IF s = "sensor.js" /\ complete /\ end < Len(buf)
                  THEN [copied EXCEPT ![end + 1] = 0]
                  ELSE copied
    IN  [ buffer   |-> closed,
          position |-> IF end <= Len(buf) THEN end ELSE 0,
          complete |-> complete,
          frame    |-> IF s = "part_002"
                       THEN SubSeq(copied, 1, Min(end, Len(buf)))
                       ELSE closed ]

\* (mutant of received) the terminator is looked for in the first byte.
received_firstByte(s, buf, pos, data) ==
    LET copied == copy(data, buf, pos)
        end == pos + Len(data)
        complete == data[1] = Terminator(s)
        closed == IF s = "sensor.js" /\ complete /\ end < Len(buf)
                  THEN [copied EXCEPT ![end + 1] = 0]
                  ELSE copied
    IN  [ buffer   |-> closed,
          position |-> IF complete THEN 0 ELSE end,
          complete |-> complete,
          frame    |-> IF s = "part_002"
                       THEN SubSeq(copied, 1, Min(end, Len(buf)))
                       ELSE closed ]

\* What port.on('data') computes from a chunk before it calls port.onData:
\* the buffer and cursor it leaves, whether the chunk completes a frame and
\* the frame it hands to the handler.
received(s, buf, pos, data) ==
    LET copied == copy(data, buf, pos)
        end == pos + Len(data)
        complete == data[Len(data)] = Terminator(s)
        closed == IF s = "sensor.js" /\ complete /\ end < Len(buf)
                  THEN [copied EXCEPT ![end + 1] = 0]
                  ELSE copied
    IN  [ buffer   |-> closed,
          position |-> IF complete THEN 0 ELSE end,
          complete |-> complete,
          frame    |-> IF s = "part_002"
                       THEN SubSeq(copied, 1, Min(end, Len(buf)))
                       ELSE closed ]

\* -------------------------------------------------------------- wire format
\* Text is a sequence of character codes, as the bytes written to and read
\* from the port.
ascii == [nul |-> 0, nl |-> 10, sp |-> 32, minus |-> 45, zero |-> 48, nine |-> 57,
          A |-> 65, F |-> 70, X |-> 88, a |-> 97, b |-> 98, d |-> 100, f |-> 102,
          r |-> 114, u |-> 117, v |-> 118, w |-> 119, x |-> 120, pipe |-> 124]

\* The text of the JS value `undefined` under util.format('%s', ...).
undefinedText == <<117, 110, 100, 101, 102, 105, 110, 101, 100>>

\* The character of one hexadecimal digit, lowercase.
digit(k) == IF k < 10 THEN ascii.zero + k ELSE ascii.a + (k - 10)

\* n.toString(16): lowercase digits, a leading '-' for a negative number.
RECURSIVE toString16(_)
toString16(n) ==
    IF n < 0 THEN <<ascii.minus>> \o toString16(-n)
    ELSE IF n < 16 THEN <<digit(n)>>
    ELSE toString16(n \div 16) \o <<digit(n % 16)>>

\* The k low hexadecimal digits of n in two's complement.
RECURSIVE twosComplement(_, _)
twosComplement(n, k) ==
    IF k = 0 THEN <<>> ELSE twosComplement(n \div 16, k - 1) \o <<digit(n % 16)>>

\* (n >>> 0).toString(16) for a 32-bit n: a negative n reads as n + 2^32,
\* which has exactly eight digits.
ushr0_toString16(n) ==
    IF n < 0 THEN twosComplement(n, 8) ELSE toString16(n)

\* The value of a hexadecimal digit character, -1 for any other character.
hexValue(c) ==
    IF c >= ascii.zero /\ c <= ascii.nine THEN c - ascii.zero
    ELSE IF c >= ascii.a /\ c <= ascii.f THEN c - ascii.a + 10
    ELSE IF c >= ascii.A /\ c <= ascii.F THEN c - ascii.A + 10
    ELSE 0 - 1

\* The number read from the leading hexadecimal digits of str, given the
\* value `acc` read so far.
RECURSIVE digits16(_, _)
digits16(str, acc) ==
    IF str = <<>> \/ hexValue(Head(str)) < 0 THEN acc
    ELSE digits16(Tail(str), acc * 16 + hexValue(Head(str)))

RECURSIVE trimStart(_)
trimStart(str) ==
    IF str # <<>> /\ Head(str) \in {ascii.sp, ascii.nl, 9, 11, 12, 13}
    THEN trimStart(Tail(str)) ELSE str

\* JS values a decoded field can be: a number, NaN or undefined.
NaN == [kind |-> "NaN", num |-> 0]

Num(n) == [kind |-> "number", num |-> n]

undefined == [kind |-> "undefined", num |-> 0]

\* parseInt(str, 16): leading white space, an optional sign, an optional
\* 0x, then digits up to the first character that is no digit; NaN when
\* there is no digit.
parseInt16(str) ==
    LET t == trimStart(str)
        neg == t # <<>> /\ Head(t) = ascii.minus
        u == IF t # <<>> /\ Head(t) \in {ascii.minus, 43} THEN Tail(t) ELSE t
        v == IF Len(u) >= 2 /\ u[1] = ascii.zero /\ u[2] \in {ascii.x, ascii.X}
             THEN SubSeq(u, 3, Len(u)) ELSE u
    IN  IF v = <<>> \/ hexValue(Head(v)) < 0 THEN NaN
        ELSE Num(IF neg THEN 0 - digits16(v, 0) ELSE digits16(v, 0))

\* str.split('|')
RECURSIVE split(_)
split(str) ==
    LET bars == {i \in 1..Len(str) : str[i] = ascii.pipe} IN
    IF bars = {} THEN <<str>>
    ELSE LET k == CHOOSE i \in bars : \A j \in bars : i <= j
         IN  <<SubSeq(str, 1, k - 1)>> \o split(SubSeq(str, k + 1, Len(str)))

\* chain.join('|')
RECURSIVE join(_)
join(chain) ==
    IF chain = <<>> THEN <<>>
    ELSE IF Len(chain) = 1 THEN chain[1]
    ELSE chain[1] \o <<ascii.pipe>> \o join(Tail(chain))


\* ---------------------------------------------------------------- promises
\* The promise pair made by one response(req) call: `state`/`value` are the
\* inner promise (settled by resolve/reject), `outer` is the promise
\* returned by .catch(), `caller` is the code awaiting it.  The remaining
\* fields are history.
NewPromise(ps, cmd, from, site) ==
    [ cmd        |-> cmd,
      state      |-> "pending",
      value      |-> <<>>,
      outer      |-> "pending",
      caller     |-> "waiting",
      site       |-> site,
      from       |-> from,
      overlapped |-> \E k \in 1..Len(ps) : ps[k].state = "pending",
      afterClose |-> closeCalls > 0,
      sawFrame   |-> FALSE,
      sawError   |-> FALSE,
      framesBefore |-> Len(frames),
      bytesBefore  |-> Len(unflushed) ]

\* resolve(value) of promise n: a settled promise ignores it.
fulfil(ps, n, v) ==
    IF ps[n].state = "pending"
    THEN [ps EXCEPT ![n].state = "fulfilled", ![n].value = v]
    ELSE ps

\* reject(err) of promise n: a settled promise ignores it.
refuse(ps, n) ==
    IF ps[n].state = "pending"
    THEN [ps EXCEPT ![n].state = "rejected"]
    ELSE ps

\* Settling a pending promise queues the reaction registered by .catch().
reaction(ps, n) ==
    IF ps[n].state = "pending" THEN <<[kind |-> "catch", req |-> n]>> ELSE <<>>

\* History: what the unsettled requests have seen arrive on the port.
observe(ps, data, r) ==
    [k \in 1..Len(ps) |->
        IF ps[k].state # "pending" THEN ps[k]
        ELSE [ps[k] EXCEPT
                !.sawFrame = @ \/ data[Len(data)] = Terminator(script)]]

\* History: an 'error' event reached promise n's reject while it was pending.
witnessed(ps, n) ==
    IF ps[n].state = "pending" THEN [ps EXCEPT ![n].sawError = TRUE] ELSE ps

idle == jobs = <<>> /\ process = "running"

isOpen == closeCalls = 0

\* ------------------------------------------------------------ port events
\* (mutant of call_resolve) the slot is not reset when the frame is handed over.
call_resolve_noReset(ps, frame) ==
    /\ promises' = fulfil(ps, onData.req, frame)
    /\ jobs' = jobs \o reaction(ps, onData.req)
    /\ UNCHANGED <<onData, onError, process>>

\* port.onData(frame) with a request's resolve installed, then
\* port.onData = defaultDataRecvFunc.
call_resolve(ps, frame) ==
    /\ promises' = fulfil(ps, onData.req, frame)
    /\ jobs' = jobs \o reaction(ps, onData.req)
    /\ onData' = defaultDataRecvFunc
    /\ UNCHANGED <<onError, process>>

\* port.onData(frame) with defaultDataRecvFunc installed.  gy33-i2c.js and
\* part_002 throw out of the event handler; part_001 logs; sensor.js logs
\* and, when port.onError is not the default, calls it and resets it.
call_defaultDataRecvFunc(ps, frame) ==
    CASE script \in {"gy33-i2c.js", "part_000", "part_002"} ->
            /\ process' = "uncaughtException"
            /\ promises' = ps
            /\ UNCHANGED <<onData, onError, jobs>>
      [] script = "part_001" ->
            /\ promises' = ps
            /\ onData' = defaultDataRecvFunc
            /\ UNCHANGED <<onError, jobs, process>>
      [] script = "sensor.js" ->
            /\ IF onError # defaultErrorFunc
               THEN /\ promises' = refuse(ps, onError.req)
                    /\ jobs' = jobs \o reaction(ps, onError.req)
                    /\ onError' = defaultErrorFunc
               ELSE /\ promises' = ps
                    /\ UNCHANGED <<onError, jobs>>
            /\ onData' = defaultDataRecvFunc
            /\ UNCHANGED process

\* port.on('data', (data) => { ... })
port_on_data(data) ==
    LET r == received(script, recvBuffer, recvPosition, data)
        ps == observe(promises, data, r)
    IN  /\ recvBuffer' = r.buffer
        /\ recvPosition' = r.position
        /\ IF r.complete
           THEN IF onData.fn = "resolve"
                THEN call_resolve(ps, r.frame)
                ELSE call_defaultDataRecvFunc(ps, r.frame)
           ELSE /\ promises' = ps
                /\ UNCHANGED <<onData, onError, jobs, process>>

\* (mutant of port_on_error) a default handler that logs and returns.
port_on_error_logged ==
    IF onError.fn = "reject"
    THEN /\ promises' = refuse(witnessed(promises, onError.req), onError.req)
         /\ jobs' = jobs \o reaction(promises, onError.req)
         /\ onError' = defaultErrorFunc
         /\ UNCHANGED process
    ELSE UNCHANGED <<onError, promises, jobs, process>>

\* port.on('error', (err) => { port.onError(err); port.onError = defaultErrorFunc; })
\* defaultErrorFunc throws out of the event handler.
port_on_error ==
    IF onError.fn = "reject"
    THEN /\ promises' = refuse(witnessed(promises, onError.req), onError.req)
         /\ jobs' = jobs \o reaction(promises, onError.req)
         /\ onError' = defaultErrorFunc
         /\ UNCHANGED process
    ELSE /\ process' = "uncaughtException"
         /\ UNCHANGED <<onError, promises, jobs>>

\* (mutant of response) a request made while another holds the slots leaves
\* the slots to the earlier request.
response_keepsFirst(ps, cmd, from, site) ==
    /\ onData' = IF onData.fn = "resolve" THEN onData ELSE resolve(Len(ps) + 1)
    /\ onError' = IF onData.fn = "resolve" THEN onError ELSE reject(Len(ps) + 1)
    /\ written' = Append(written, [req |-> Len(ps) + 1, cmd |-> cmd])
    /\ promises' = Append(ps, NewPromise(ps, cmd, from, site))

\* response(req): the executor of new Promise(...), run synchronously.  `ps`
\* is the promise list the call is made in; the new promise is appended.
response(ps, cmd, from, site) ==
    /\ onData' = resolve(Len(ps) + 1)
    /\ onError' = reject(Len(ps) + 1)
    /\ written' = Append(written, [req |-> Len(ps) + 1, cmd |-> cmd])
    /\ promises' = Append(ps, NewPromise(ps, cmd, from, site))

\* write(addr, data) of sensor.js: the executor sets port.onError only,
\* registers the drain callback and writes req; port.onData is not touched.
write_drain(ps, cmd, from, site) ==
    /\ onError' = reject(Len(ps) + 1)
    /\ written' = Append(written, [req |-> Len(ps) + 1, cmd |-> cmd])
    /\ promises' = Append(ps, NewPromise(ps, cmd, from, site))
    /\ UNCHANGED onData

\* What write(addr, data) does with its request text: sensor.js waits for
\* the drain, the other scripts for a response frame.
call_write(ps, cmd, from, site) ==
    IF script = "sensor.js" THEN write_drain(ps, cmd, from, site)
    ELSE response(ps, cmd, from, site)

\* ----------------------------------------------------------------- actions
\* A 'data' event: the device's bytes arrive in a chunk of any length.
PortData(data) ==
    /\ idle
    /\ isOpen
    /\ recvPosition + Len(data) <= MaxPos
    /\ port_on_data(data)
    /\ UNCHANGED <<script, errored, batchVars, written, closeCalls, unflushed, stream, frames, timer>>

\* An 'error' event.
PortError ==
    /\ idle
    /\ port_on_error
    /\ errored' = TRUE
    /\ UNCHANGED <<script, batchVars, recvBuffer, recvPosition, onData, written, closeCalls,
                   unflushed, stream, frames, timer>>

\* Some caller calls response(req) from a timer callback or from top level.
CallResponse(cmd) ==
    /\ idle
    /\ Len(promises) < MaxReq
    /\ response(promises, cmd, 0, "api")
    /\ UNCHANGED <<script, errored, batchVars, recvBuffer, recvPosition, closeCalls, jobs, process,
                   unflushed, stream, frames, timer>>

\* The .catch() reaction of a fulfilled promise: the value passes through.
CatchPassThrough ==
    /\ process = "running"
    /\ jobs # <<>>
    /\ Head(jobs).kind = "catch"
    /\ promises[Head(jobs).req].state = "fulfilled"
    /\ promises' = [promises EXCEPT ![Head(jobs).req].outer = "fulfilled"]
    /\ jobs' = Tail(jobs) \o <<[kind |-> "await", req |-> Head(jobs).req]>>
    /\ UNCHANGED <<script, errored, batchVars, portVars, written, closeCalls, process, unflushed, stream, frames, timer>>

\* (mutant of CatchPortError) the handler forgets port.close().
CatchPortError_noClose ==
    /\ process = "running"
    /\ jobs # <<>>
    /\ Head(jobs).kind = "catch"
    /\ promises[Head(jobs).req].state = "rejected"
    /\ promises' = [promises EXCEPT ![Head(jobs).req].outer = "rejected"]
    /\ jobs' = Tail(jobs) \o <<[kind |-> "await", req |-> Head(jobs).req]>>
    /\ UNCHANGED <<script, errored, batchVars, portVars, written, closeCalls, process, unflushed, stream, frames, timer>>

\* The .catch() reaction of a rejected promise:
\* port.close(); throw new Error('Port error').
\* (mutant of CatchPortError) the catch handler sends the command again.
CatchPortError_resends ==
    /\ process = "running"
    /\ jobs # <<>>
    /\ Head(jobs).kind = "catch"
    /\ promises[Head(jobs).req].state = "rejected"
    /\ closeCalls' = closeCalls + 1
    /\ written' = Append(written, [req |-> Head(jobs).req,
                                   cmd |-> promises[Head(jobs).req].cmd])
    /\ promises' = [promises EXCEPT ![Head(jobs).req].outer = "rejected"]
    /\ jobs' = Tail(jobs) \o <<[kind |-> "await", req |-> Head(jobs).req]>>
    /\ UNCHANGED <<script, errored, batchVars, portVars, process, unflushed, stream, frames, timer>>

CatchPortError ==
    /\ process = "running"
    /\ jobs # <<>>
    /\ Head(jobs).kind = "catch"
    /\ promises[Head(jobs).req].state = "rejected"
    /\ closeCalls' = closeCalls + 1
    /\ promises' = [promises EXCEPT ![Head(jobs).req].outer = "rejected"]
    /\ jobs' = Tail(jobs) \o <<[kind |-> "await", req |-> Head(jobs).req]>>
    /\ UNCHANGED <<script, errored, batchVars, portVars, written, process, unflushed, stream, frames, timer>>

\* The caller's continuation after `await response(req)`.
returned(ps, n) ==
    [ps EXCEPT ![n].caller = IF ps[n].outer = "fulfilled" THEN "returned" ELSE "threw"]

\* The continuation of an API caller runs and issues nothing.
Continue ==
    /\ process = "running"
    /\ jobs # <<>>
    /\ Head(jobs).kind = "await"
    /\ promises[Head(jobs).req].site = "api"
    /\ promises' = returned(promises, Head(jobs).req)
    /\ jobs' = Tail(jobs)
    /\ UNCHANGED <<script, errored, batchVars, portVars, written, closeCalls, process, unflushed, stream, frames, timer>>

\* The continuation of an API caller runs and issues the next request
\* (as bitSet does after its read).
ContinueWithRequest(cmd) ==
    /\ process = "running"
    /\ jobs # <<>>
    /\ Head(jobs).kind = "await"
    /\ promises[Head(jobs).req].site = "api"
    /\ Len(promises) < MaxReq
    /\ response(returned(promises, Head(jobs).req), cmd, Head(jobs).req, "api")
    /\ jobs' = Tail(jobs)
    /\ UNCHANGED <<script, errored, batchVars, recvBuffer, recvPosition, closeCalls, process, unflushed, stream, frames, timer>>

\* A 'data' event whose bytes and frames are recorded (framing specification).
FeedChunk(data) ==
    LET r == received(script, recvBuffer, recvPosition, data) IN
    /\ idle
    /\ isOpen
    /\ recvPosition + Len(data) <= MaxPos
    /\ Len(stream) + Len(data) <= MaxStream
    /\ port_on_data(data)
    /\ stream' = stream \o data
    /\ unflushed' = IF r.complete THEN <<>> ELSE unflushed \o data
    /\ frames' = IF r.complete
                 THEN Append(frames, [frame |-> r.frame,
                                      buffered |-> unflushed \o data,
                                      to |-> onData])
                 ELSE frames
    /\ UNCHANGED <<script, errored, batchVars, written, closeCalls, timer>>

\* A disciplined caller calls response(req): every earlier request has
\* settled and its continuation has run.
CallResponseInTurn(cmd) ==
    /\ \A n \in 1..Len(promises) : promises[n].caller # "waiting"
    /\ CallResponse(cmd)

\* ------------------------------------------------------ the polling scripts
\* part_001 and sensor.js poll with setInterval, the others re-arm a
\* setTimeout from readSensor.
LoopOf(s) == IF s \in {"part_001", "sensor.js"} THEN "setInterval" ELSE "setTimeout"

\* main() issues its first request: await response('i\n').
MainStart ==
    /\ idle
    /\ promises = <<>>
    /\ response(promises, "r", 0, "main")
    /\ UNCHANGED <<script, errored, batchVars, recvBuffer, recvPosition, closeCalls, jobs, process,
                   unflushed, stream, frames, timer>>

\* main() continues with the next request of its start-up sequence.
MainNext ==
    /\ process = "running"
    /\ jobs # <<>>
    /\ Head(jobs).kind = "await"
    /\ promises[Head(jobs).req].site = "main"
    /\ promises[Head(jobs).req].outer = "fulfilled"
    /\ Len(promises) < MaxPoll - 1
    /\ response(returned(promises, Head(jobs).req), "r", Head(jobs).req, "main")
    /\ jobs' = Tail(jobs)
    /\ UNCHANGED <<script, errored, batchVars, recvBuffer, recvPosition, closeCalls, process, unflushed, stream, frames, timer>>

\* main() reaches the end of start-up with setInterval(async () => ...).
MainSetInterval ==
    /\ process = "running"
    /\ jobs # <<>>
    /\ Head(jobs).kind = "await"
    /\ promises[Head(jobs).req].site = "main"
    /\ promises[Head(jobs).req].outer = "fulfilled"
    /\ LoopOf(script) = "setInterval"
    /\ promises' = returned(promises, Head(jobs).req)
    /\ jobs' = Tail(jobs)
    /\ timer' = TRUE
    /\ UNCHANGED <<script, errored, batchVars, portVars, written, closeCalls, process, unflushed, stream, frames>>

\* main() reaches the end of start-up with readSensor(), which calls
\* run() and so response() at once.
MainReadSensor ==
    /\ process = "running"
    /\ jobs # <<>>
    /\ Head(jobs).kind = "await"
    /\ promises[Head(jobs).req].site = "main"
    /\ promises[Head(jobs).req].outer = "fulfilled"
    /\ LoopOf(script) = "setTimeout"
    /\ Len(promises) < MaxPoll
    /\ response(returned(promises, Head(jobs).req), "r", Head(jobs).req, "loop")
    /\ jobs' = Tail(jobs)
    /\ UNCHANGED <<script, errored, batchVars, recvBuffer, recvPosition, closeCalls, process, unflushed, stream, frames, timer>>

\* A start-up request failed: main().catch(...) calls process.exit(1).
MainCatch ==
    /\ process = "running"
    /\ jobs # <<>>
    /\ Head(jobs).kind = "await"
    /\ promises[Head(jobs).req].site = "main"
    /\ promises[Head(jobs).req].outer = "rejected"
    /\ promises' = returned(promises, Head(jobs).req)
    /\ jobs' = Tail(jobs)
    /\ process' = "exit"
    /\ UNCHANGED <<script, errored, batchVars, portVars, written, closeCalls, unflushed, stream, frames, timer>>

\* The setInterval timer fires: the callback calls read(), so response().
\* The interval is never cleared.
IntervalTick ==
    /\ idle
    /\ timer
    /\ LoopOf(script) = "setInterval"
    /\ Len(promises) < MaxPoll
    /\ response(promises, "r", 0, "loop")
    /\ UNCHANGED <<script, errored, batchVars, recvBuffer, recvPosition, closeCalls, jobs, process,
                   unflushed, stream, frames, timer>>

\* (mutant of TimeoutFire) the timer stays armed when it fires, as an
\* interval would.
TimeoutFire_staysArmed ==
    /\ idle
    /\ timer
    /\ LoopOf(script) = "setTimeout"
    /\ Len(promises) < MaxPoll
    /\ response(promises, "r", 0, "loop")
    /\ UNCHANGED <<script, errored, batchVars, recvBuffer, recvPosition, closeCalls, jobs, process,
                   unflushed, stream, frames, timer>>

\* The setTimeout(readSensor) timer fires: readSensor calls run(), so response().
TimeoutFire ==
    /\ idle
    /\ timer
    /\ LoopOf(script) = "setTimeout"
    /\ Len(promises) < MaxPoll
    /\ timer' = FALSE
    /\ response(promises, "r", 0, "loop")
    /\ UNCHANGED <<script, errored, batchVars, recvBuffer, recvPosition, closeCalls, jobs, process,
                   unflushed, stream, frames>>

\* The awaited response arrived in a polling iteration: the setInterval
\* callback ends; readSensor ends with setTimeout(readSensor, 500).
LoopDone ==
    /\ process = "running"
    /\ jobs # <<>>
    /\ Head(jobs).kind = "await"
    /\ promises[Head(jobs).req].site = "loop"
    /\ promises[Head(jobs).req].outer = "fulfilled"
    /\ promises' = returned(promises, Head(jobs).req)
    /\ jobs' = Tail(jobs)
    /\ timer' = IF LoopOf(script) = "setTimeout" THEN TRUE ELSE timer
    /\ UNCHANGED <<script, errored, batchVars, portVars, written, closeCalls, process, unflushed, stream, frames>>

\* The awaited response failed in a polling iteration: the async function
\* rejects and nothing handles it.  The runtime either ends the process or
\* only warns; readSensor does not re-arm its timer.
LoopRejected ==
    /\ process = "running"
    /\ jobs # <<>>
    /\ Head(jobs).kind = "await"
    /\ promises[Head(jobs).req].site = "loop"
    /\ promises[Head(jobs).req].outer = "rejected"
    /\ promises' = returned(promises, Head(jobs).req)
    /\ jobs' = Tail(jobs)
    /\ process' \in {"running", "uncaughtException"}
    /\ UNCHANGED <<script, errored, batchVars, portVars, written, closeCalls, unflushed, stream, frames, timer>>

\* ------------------------------------------------- write, read and Batch
\* The scripts that define write/read, and those that define Batch.
WireScripts == {"gy33-i2c.js", "part_000", "part_001", "part_002"}

BatchScripts == {"gy33-i2c.js", "part_000", "part_002"}

HasBatch(s) == s \in BatchScripts

\* Register address, immediate values, widths and wait arguments a caller passes.
Addrs == {1073763328}

Values == {257, 0 - 1}

Widths == {"undefined", "2", "3"}

Bits == {33}

\* Bit indices and expected values a caller passes to Batch.wait, inside and
\* outside 0..31 and 0..1.
WaitBits == {0, 31, 37}

WaitValues == {0, 2, 0 - 1}

\* The replies the device sends, each one chunk ending in NUL: "0" and
\* "a|b|c".
Replies == { <<48, 0>>, <<97, 124, 98, 124, 99, 0>> }

\* Replies with a field that is no hexadecimal number: "z" and "a|z".
MalformedReplies == { <<122, 0>>, <<97, 124, 122, 0>> }

\* What the device of sensor.js sends, each line ending in '\n': "0" and "z".
SensorReplies == { <<48, 10>>, <<122, 10>> }

RepliesOf(s) ==
    IF s = "sensor.js" THEN SensorReplies ELSE Replies \cup MalformedReplies

\* util.format('%s', width)
text == ("undefined" :> undefinedText) @@ ("1" :> <<49>>) @@ ("2" :> <<50>>) @@
        ("3" :> <<51>>) @@ ("4" :> <<52>>) @@ ("b" :> <<ascii.b>>) @@
        ("w" :> <<ascii.w>>) @@ ("d" :> <<ascii.d>>)

\* const map = { 1: 'b', 2: 'w', 4: 'd' }
map == ("1" :> <<ascii.b>>) @@ ("2" :> <<ascii.w>>) @@ ("4" :> <<ascii.d>>)

\* widthModifier(size): '' for undefined, map[size], or a throw.
widthModifier(size) ==
    IF size = "undefined" THEN [threw |-> FALSE, modifier |-> <<>>]
    ELSE IF size \in DOMAIN map THEN [threw |-> FALSE, modifier |-> map[size]]
    ELSE [threw |-> TRUE, modifier |-> <<>>]

\* The width text a Batch method of script s puts after the command letter:
\* part_002 formats the argument as it is, the others call widthModifier.
batchWidth(s, width) ==
    IF s = "part_002" THEN [threw |-> FALSE, modifier |-> text[width]]
    ELSE widthModifier(width)

\* No bitSet/bitClear call is in progress.
NoLocals == [fn |-> "none", addr |-> 0, bits |-> 0, req |-> 0]

\* this.chain = new Array(50)
ChainSize == 50

\* new Batch()
Batch == [chain |-> <<>>, index |-> 0, resultCommand |-> <<>>, cache |-> <<>>]

NoOutcome == [call |-> "none", threw |-> "", scalar |-> FALSE, value |-> <<>>,
              text |-> <<>>, req |-> 0]

Threw(call, message) == [NoOutcome EXCEPT !.call = call, !.threw = message]

\* this.chain[this.index++] = cmd
push(b, cmd) == [b EXCEPT !.chain = Append(@, cmd), !.index = @ + 1]

\* (mutant of wait_id) neither argument is masked.
wait_id_unmasked(bit, value) == value * 32 + bit

\* wait_id = ((value & 1) << 5) | (bit & 0x1f)
wait_id(bit, value) == (value % 2) * 32 + (bit % 32)

\* The command text of Batch.write, Batch.read and Batch.wait.
cmd_write(m, addr, value) ==
    <<ascii.w>> \o m \o <<ascii.sp>> \o toString16(addr) \o <<ascii.sp>> \o toString16(value)

cmd_read(m, addr) ==
    <<ascii.r>> \o m \o <<ascii.sp>> \o toString16(addr)

cmd_wait(m, addr, bit, value) ==
    <<ascii.u>> \o m \o <<ascii.sp>> \o toString16(addr) \o <<ascii.sp>>
        \o toString16(wait_id(bit, value))

\* (mutant of req_write) the numbers carry a 0x prefix.
req_write_prefixed(s, addr, data, width) ==
    <<ascii.w, ascii.sp, ascii.zero, ascii.x>> \o toString16(addr)
    \o <<ascii.sp, ascii.zero, ascii.x>> \o toString16(data) \o <<ascii.nl>>

\* The request text of the direct write(addr, data) of script s: part_001
\* formats data as it is, the others format data >>> 0; part_002 takes a
\* width, '' when undefined; sensor.js writes 'a %s v %s\n'.
req_write(s, addr, data, width) ==
    IF s = "sensor.js"
    THEN <<ascii.a, ascii.sp>> \o toString16(addr) \o <<ascii.sp, ascii.v, ascii.sp>>
         \o toString16(data) \o <<ascii.nl>>
    ELSE <<ascii.w>>
         \o (IF s = "part_002" /\ width # "undefined" THEN text[width] ELSE <<>>)
         \o <<ascii.sp>> \o toString16(addr) \o <<ascii.sp>>
         \o (IF s = "part_001" THEN toString16(data) ELSE ushr0_toString16(data))
         \o <<ascii.nl>>

\* The request text of the direct read(addr): 'r %s\n', in sensor.js 'a %s\n'.
req_read(s, addr) ==
    <<IF s = "sensor.js" THEN ascii.a ELSE ascii.r, ascii.sp>>
    \o toString16(addr) \o <<ascii.nl>>

\* (mutant of get) every operation is followed by '|'.
get_trailingBar(b) ==
    IF b.index = 0 THEN [threw |-> TRUE, text |-> <<>>]
    ELSE [threw |-> FALSE,
          text |-> join(SubSeq(b.chain, 1, b.index)) \o <<ascii.pipe, ascii.nl>>]

\* Batch.get(): throws on an empty batch, else the chain joined by '|' and '\n'.
get(b) ==
    IF b.index = 0 THEN [threw |-> TRUE, text |-> <<>>]
    ELSE [threw |-> FALSE, text |-> join(SubSeq(b.chain, 1, b.index)) \o <<ascii.nl>>]

\* result[x] of a JS array, x counted from 0: undefined outside the array.
at(result, x) ==
    IF x >= 0 /\ x < Len(result) THEN result[x + 1] ELSE undefined

\* resp.toString().split('|').map((x) => parseInt(x, 16))
decoded(resp) ==
    LET parts == split(resp) IN [i \in 1..Len(parts) |-> parseInt16(parts[i])]

\* (mutant of run_result) the marks are applied in reverse order.
run_result_reversed(s, b, resp, n) ==
    LET result == decoded(resp)
        k == Len(b.resultCommand)
        translated == [i \in 1..k |-> at(result, b.resultCommand[k + 1 - i])]
    IN  IF s = "part_000"
        THEN IF b.resultCommand # <<>>
             THEN [NoOutcome EXCEPT !.call = "run", !.scalar = TRUE, !.req = n,
                                    !.value = <<at(result, b.resultCommand[1])>>]
             ELSE [NoOutcome EXCEPT !.call = "run", !.value = result, !.req = n]
        ELSE IF k = 1
             THEN [NoOutcome EXCEPT !.call = "run", !.scalar = TRUE, !.req = n,
                                    !.value = <<translated[1]>>]
             ELSE [NoOutcome EXCEPT !.call = "run", !.value = translated, !.req = n]

\* (mutant of run_result) a single mark is returned as a one-element list.
run_result_list(s, b, resp, n) ==
    LET result == decoded(resp)
        translated == [i \in 1..Len(b.resultCommand) |-> at(result, b.resultCommand[i])]
    IN  IF s = "part_000" /\ b.resultCommand = <<>>
        THEN [NoOutcome EXCEPT !.call = "run", !.value = result, !.req = n]
        ELSE [NoOutcome EXCEPT !.call = "run", !.value = translated, !.req = n]

\* What Batch.run() returns for the response resp of request n.  part_000
\* keeps one result index; the others keep a list of them.
run_result(s, b, resp, n) ==
    LET result == decoded(resp)
        translated == [i \in 1..Len(b.resultCommand) |-> at(result, b.resultCommand[i])]
    IN  IF s = "part_000"
        THEN IF b.resultCommand # <<>>
             THEN [NoOutcome EXCEPT !.call = "run", !.scalar = TRUE, !.req = n,
                                    !.value = <<at(result, b.resultCommand[1])>>]
             ELSE [NoOutcome EXCEPT !.call = "run", !.value = result, !.req = n]
        ELSE IF Len(translated) = 1
             THEN [NoOutcome EXCEPT !.call = "run", !.scalar = TRUE, !.req = n,
                                    !.value = <<translated[1]>>]
             ELSE [NoOutcome EXCEPT !.call = "run", !.value = translated, !.req = n]

\* Every earlier request has settled and its caller has resumed.
inTurn == \A n \in 1..Len(promises) : promises[n].caller # "waiting"

\* batch.write(addr, value, width)
BatchWrite(addr, value, width) ==
    LET w == batchWidth(script, width) IN
    /\ idle
    /\ HasBatch(script)
    /\ inTurn
    /\ IF w.threw
       THEN /\ outcome' = Threw("Batch.write", "Unknown width modifier")
            /\ UNCHANGED batch
       ELSE /\ batch' = push(batch, cmd_write(w.modifier, addr, value))
            /\ outcome' = [NoOutcome EXCEPT !.call = "Batch.write"]
    /\ UNCHANGED <<script, errored, locals, portVars, written, closeCalls, promises, jobs,
                   process, unflushed, stream, frames, timer>>

\* (mutant of BatchRead) the operation is counted before its text is built.
BatchRead_countsFirst(addr, width) ==
    LET w == batchWidth(script, width) IN
    /\ idle
    /\ HasBatch(script)
    /\ inTurn
    /\ IF w.threw
       THEN /\ outcome' = Threw("Batch.read", "Unknown width modifier")
            /\ batch' = [batch EXCEPT !.index = @ + 1]
       ELSE /\ batch' = push(batch, cmd_read(w.modifier, addr))
            /\ outcome' = [NoOutcome EXCEPT !.call = "Batch.read"]
    /\ UNCHANGED <<script, errored, locals, portVars, written, closeCalls, promises, jobs,
                   process, unflushed, stream, frames, timer>>

\* batch.read(addr, width)
BatchRead(addr, width) ==
    LET w == batchWidth(script, width) IN
    /\ idle
    /\ HasBatch(script)
    /\ inTurn
    /\ IF w.threw
       THEN /\ outcome' = Threw("Batch.read", "Unknown width modifier")
            /\ UNCHANGED batch
       ELSE /\ batch' = push(batch, cmd_read(w.modifier, addr))
            /\ outcome' = [NoOutcome EXCEPT !.call = "Batch.read"]
    /\ UNCHANGED <<script, errored, locals, portVars, written, closeCalls, promises, jobs,
                   process, unflushed, stream, frames, timer>>

\* batch.wait(addr, bit, value, width)
BatchWait(addr, bit, value, width) ==
    LET w == batchWidth(script, width) IN
    /\ idle
    /\ HasBatch(script)
    /\ inTurn
    /\ IF w.threw
       THEN /\ outcome' = Threw("Batch.wait", "Unknown width modifier")
            /\ UNCHANGED batch
       ELSE /\ batch' = push(batch, cmd_wait(w.modifier, addr, bit, value))
            /\ outcome' = [NoOutcome EXCEPT !.call = "Batch.wait"]
    /\ UNCHANGED <<script, errored, locals, portVars, written, closeCalls, promises, jobs,
                   process, unflushed, stream, frames, timer>>

\* (mutant of BatchSetAsResult) part_000 replaces its result index silently.
BatchSetAsResult_overwrites ==
    /\ idle
    /\ HasBatch(script)
    /\ inTurn
    /\ Len(batch.resultCommand) < MaxMarks
    /\ batch' = [batch EXCEPT !.resultCommand =
                    IF script = "part_000" THEN <<batch.index - 1>>
                    ELSE Append(@, batch.index - 1)]
    /\ outcome' = [NoOutcome EXCEPT !.call = "setAsResult"]
    /\ UNCHANGED <<script, errored, locals, portVars, written, closeCalls, promises, jobs,
                   process, unflushed, stream, frames, timer>>

\* batch.setAsResult(): part_000 keeps one index and throws on a second call.
BatchSetAsResult ==
    /\ idle
    /\ HasBatch(script)
    /\ inTurn
    /\ Len(batch.resultCommand) < MaxMarks
    /\ IF script = "part_000" /\ batch.resultCommand # <<>>
       THEN /\ outcome' = Threw("setAsResult", "Result is already set")
            /\ UNCHANGED batch
       ELSE /\ batch' = [batch EXCEPT !.resultCommand = Append(@, batch.index - 1)]
            /\ outcome' = [NoOutcome EXCEPT !.call = "setAsResult"]
    /\ UNCHANGED <<script, errored, locals, portVars, written, closeCalls, promises, jobs,
                   process, unflushed, stream, frames, timer>>

\* batch.get(): the text of the chain as it is now; this.cache is neither
\* read nor written.
BatchGet ==
    /\ idle
    /\ HasBatch(script)
    /\ inTurn
    /\ outcome' = IF get(batch).threw THEN Threw("get", "Empty batch")
                  ELSE [NoOutcome EXCEPT !.call = "get", !.text = get(batch).text]
    /\ UNCHANGED <<script, errored, locals, batch, portVars, written, closeCalls, promises,
                   jobs, process, unflushed, stream, frames, timer>>

\* (mutant of BatchRun) the command is serialized anew on every run.
BatchRun_noCache ==
    /\ idle
    /\ HasBatch(script)
    /\ inTurn
    /\ Len(promises) < MaxRuns
    /\ IF get(batch).threw
       THEN /\ outcome' = Threw("run", "Empty batch")
            /\ UNCHANGED <<batch, onData, onError, written, promises>>
       ELSE /\ batch' = [batch EXCEPT !.cache = <<get(batch).text>>]
            /\ response(promises, get(batch).text, 0, "run")
            /\ outcome' = [NoOutcome EXCEPT !.call = "run()"]
    /\ UNCHANGED <<script, errored, locals, recvBuffer, recvPosition, closeCalls, jobs,
                   process, unflushed, stream, frames, timer>>

\* (mutant of BatchRun) an empty batch is sent as a bare line terminator.
BatchRun_sendsEmpty ==
    LET cache == IF batch.cache = <<>>
                 THEN join(SubSeq(batch.chain, 1, batch.index)) \o <<ascii.nl>>
                 ELSE batch.cache[1] IN
    /\ idle
    /\ HasBatch(script)
    /\ inTurn
    /\ Len(promises) < MaxRuns
    /\ batch' = [batch EXCEPT !.cache = <<cache>>]
    /\ response(promises, cache, 0, "run")
    /\ outcome' = [NoOutcome EXCEPT !.call = "run()"]
    /\ UNCHANGED <<script, errored, locals, recvBuffer, recvPosition, closeCalls, jobs,
                   process, unflushed, stream, frames, timer>>

\* batch.run() up to its await: fill the cache from get() if it is unset
\* (get() may throw), then response(this.cache).
BatchRun ==
    /\ idle
    /\ HasBatch(script)
    /\ inTurn
    /\ Len(promises) < MaxRuns
    /\ IF batch.cache = <<>> /\ get(batch).threw
       THEN /\ outcome' = Threw("run", "Empty batch")
            /\ UNCHANGED <<batch, onData, onError, written, promises>>
       ELSE LET cache == IF batch.cache = <<>> THEN get(batch).text ELSE batch.cache[1] IN
            /\ batch' = [batch EXCEPT !.cache = <<cache>>]
            /\ response(promises, cache, 0, "run")
            /\ outcome' = [NoOutcome EXCEPT !.call = "run()"]
    /\ UNCHANGED <<script, errored, locals, recvBuffer, recvPosition, closeCalls, jobs,
                   process, unflushed, stream, frames, timer>>

\* batch.run() after its await: decode and project the response, or pass
\* the 'Port error' on.
BatchRunResume ==
    /\ process = "running"
    /\ jobs # <<>>
    /\ Head(jobs).kind = "await"
    /\ promises[Head(jobs).req].site = "run"
    /\ promises' = returned(promises, Head(jobs).req)
    /\ jobs' = Tail(jobs)
    /\ outcome' = IF promises[Head(jobs).req].outer = "fulfilled"
                  THEN run_result(script, batch, promises[Head(jobs).req].value,
                                  Head(jobs).req)
                  ELSE Threw("run", "Port error")
    /\ UNCHANGED <<script, errored, locals, batch, portVars, written, closeCalls, process,
                   unflushed, stream, frames, timer>>

\* write(addr, data) up to its await.
CallWrite(addr, data, width) ==
    /\ idle
    /\ Len(promises) < MaxRuns
    /\ call_write(promises, req_write(script, addr, data, width), 0, "write")
    /\ outcome' = [NoOutcome EXCEPT !.call = "write()"]
    /\ UNCHANGED <<script, errored, locals, batch, recvBuffer, recvPosition, closeCalls, jobs,
                   process, unflushed, stream, frames, timer>>

\* write(addr, data) after its await.
WriteResume ==
    /\ process = "running"
    /\ jobs # <<>>
    /\ Head(jobs).kind = "await"
    /\ promises[Head(jobs).req].site = "write"
    /\ promises' = returned(promises, Head(jobs).req)
    /\ jobs' = Tail(jobs)
    /\ outcome' = IF promises[Head(jobs).req].outer = "fulfilled"
                  THEN [NoOutcome EXCEPT !.call = "write", !.req = Head(jobs).req]
                  ELSE Threw("write", "Port error")
    /\ UNCHANGED <<script, errored, locals, batch, portVars, written, closeCalls, process,
                   unflushed, stream, frames, timer>>

\* read(addr) up to its await.
CallRead(addr) ==
    /\ idle
    /\ inTurn
    /\ Len(promises) < MaxRuns
    /\ response(promises, req_read(script, addr), 0, "read")
    /\ outcome' = [NoOutcome EXCEPT !.call = "read()"]
    /\ UNCHANGED <<script, errored, locals, batch, recvBuffer, recvPosition, closeCalls, jobs,
                   process, unflushed, stream, frames, timer>>

\* (mutant of ReadResume) a response that does not parse closes the port.
ReadResume_closes ==
    LET n == Head(jobs).req
        num == parseInt16(promises[n].value)
        failed == promises[n].outer = "fulfilled" /\ num = NaN /\ script # "sensor.js" IN
    /\ process = "running"
    /\ jobs # <<>>
    /\ Head(jobs).kind = "await"
    /\ promises[n].site = "read"
    /\ promises' = returned(promises, n)
    /\ jobs' = Tail(jobs)
    /\ closeCalls' = IF failed THEN closeCalls + 1 ELSE closeCalls
    /\ outcome' = IF promises[n].outer # "fulfilled" THEN Threw("read", "Port error")
                  ELSE IF failed THEN Threw("read", "Response parser error")
                  ELSE [NoOutcome EXCEPT !.call = "read", !.scalar = TRUE,
                                         !.value = <<num>>, !.req = n]
    /\ UNCHANGED <<script, errored, locals, batch, portVars, written, process,
                   unflushed, stream, frames, timer>>

\* read(addr) after its await: parseInt(str, 16), and a throw on NaN.
\* sensor.js returns the number without the isNaN test.
ReadResume ==
    LET n == Head(jobs).req
        num == parseInt16(promises[n].value) IN
    /\ process = "running"
    /\ jobs # <<>>
    /\ Head(jobs).kind = "await"
    /\ promises[n].site = "read"
    /\ promises' = returned(promises, n)
    /\ jobs' = Tail(jobs)
    /\ outcome' = IF promises[n].outer # "fulfilled" THEN Threw("read", "Port error")
                  ELSE IF num = NaN /\ script # "sensor.js"
                       THEN Threw("read", "Response parser error")
                  ELSE [NoOutcome EXCEPT !.call = "read", !.scalar = TRUE,
                                         !.value = <<num>>, !.req = n]
    /\ UNCHANGED <<script, errored, locals, batch, portVars, written, closeCalls, process,
                   unflushed, stream, frames, timer>>

\* a | b and a & ~b, bit by bit, for numbers that are not negative.
RECURSIVE or32(_, _)
or32(a, b) ==
    IF a = 0 THEN b
    ELSE IF b = 0 THEN a
    ELSE (IF a % 2 = 1 \/ b % 2 = 1 THEN 1 ELSE 0) + 2 * or32(a \div 2, b \div 2)

RECURSIVE andNot32(_, _)
andNot32(a, b) ==
    IF a = 0 THEN 0
    ELSE (IF a % 2 = 1 /\ b % 2 = 0 THEN 1 ELSE 0) + 2 * andNot32(a \div 2, b \div 2)

\* The bit masks a caller passes to bitSet/bitClear.
Masks == {6, 257}

\* ToInt32 of what read() returned: NaN counts as 0.
toInt32(num) == IF num = NaN THEN 0 ELSE num.num

\* (mutant of write_back) bitClear clears the bits of the mask's complement.
write_back_and(fn, value, bits) ==
    IF fn = "bitSet" THEN or32(value, bits) ELSE value - andNot32(value, bits)

\* value | bits in bitSet, value & ~bits in bitClear.
write_back(fn, value, bits) ==
    IF fn = "bitSet" THEN or32(value, bits) ELSE andNot32(value, bits)

\* bitSet/bitClear up to the await in read(addr).
call_bit(fn, addr, bits) ==
    /\ idle
    /\ locals = NoLocals
    /\ Len(promises) < MaxRuns
    /\ response(promises, req_read(script, addr), 0, fn)
    /\ locals' = [fn |-> fn, addr |-> addr, bits |-> bits, req |-> Len(promises) + 1]
    /\ outcome' = [NoOutcome EXCEPT !.call = fn \o "()"]
    /\ UNCHANGED <<script, errored, batch, recvBuffer, recvPosition, closeCalls, jobs,
                   process, unflushed, stream, frames, timer>>

CallBitSet(addr, bits) == call_bit("bitSet", addr, bits)

CallBitClear(addr, bits) == call_bit("bitClear", addr, bits)

\* read(addr) returns inside bitSet/bitClear, which goes on to
\* write(addr, ...): one run of microtasks.  A read that throws ends the
\* call; sensor.js's read never throws on NaN.
BitResume ==
    LET n == Head(jobs).req
        num == parseInt16(promises[n].value)
        ps == returned(promises, n) IN
    /\ process = "running"
    /\ jobs # <<>>
    /\ Head(jobs).kind = "await"
    /\ promises[n].site \in {"bitSet", "bitClear"}
    /\ jobs' = Tail(jobs)
    /\ IF promises[n].outer # "fulfilled" \/ (num = NaN /\ script # "sensor.js")
       THEN /\ promises' = ps
            /\ outcome' = Threw(promises[n].site,
                                IF promises[n].outer # "fulfilled" THEN "Port error"
                                ELSE "Response parser error")
            /\ locals' = NoLocals
            /\ UNCHANGED <<onData, onError, written>>
       ELSE /\ call_write(ps, req_write(script, locals.addr,
                                        write_back(locals.fn, toInt32(num), locals.bits),
                                        "undefined"),
                          n, "write-back")
            /\ UNCHANGED <<outcome, locals>>
    /\ UNCHANGED <<script, errored, batch, recvBuffer, recvPosition, closeCalls, process,
                   unflushed, stream, frames, timer>>

\* write(addr, ...) returns inside bitSet/bitClear, which returns.
BitDone ==
    LET n == Head(jobs).req IN
    /\ process = "running"
    /\ jobs # <<>>
    /\ Head(jobs).kind = "await"
    /\ promises[n].site = "write-back"
    /\ promises' = returned(promises, n)
    /\ jobs' = Tail(jobs)
    /\ outcome' = IF promises[n].outer = "fulfilled"
                  THEN [NoOutcome EXCEPT !.call = locals.fn, !.req = n]
                  ELSE Threw(locals.fn, "Port error")
    /\ locals' = NoLocals
    /\ UNCHANGED <<script, errored, batch, portVars, written, closeCalls, process,
                   unflushed, stream, frames, timer>>

\* sensor.js: the drain callback of the oldest unfinished write runs.
Drain ==
    /\ idle
    /\ script = "sensor.js"
    /\ \E n \in 1..Len(promises) :
          /\ promises[n].site \in {"write", "write-back"}
          /\ promises[n].state = "pending"
          /\ \A k \in 1..(n - 1) :
                ~(promises[k].site \in {"write", "write-back"} /\ promises[k].state = "pending")
          /\ promises' = fulfil(promises, n, <<>>)
          /\ jobs' = jobs \o reaction(promises, n)
    /\ UNCHANGED <<script, errored, batchVars, portVars, written, closeCalls, process,
                   unflushed, stream, frames, timer>>

\* The device answers the request it was sent: one chunk holding a whole
\* reply.
DeviceReply(data) ==
    /\ idle
    /\ isOpen
    /\ onData.fn = "resolve"
    /\ recvPosition + Len(data) <= Len(recvBuffer) + 1
    /\ port_on_data(data)
    /\ UNCHANGED <<script, errored, batchVars, written, closeCalls, unflushed, stream,
                   frames, timer>>

\* ----------------------------------------------------------- specification
Init ==
    /\ script \in Scripts
    /\ recvBuffer = alloc(RecvCap)
    /\ recvPosition = 0
    /\ onError = defaultErrorFunc
    /\ onData = defaultDataRecvFunc
    /\ written = <<>>
    /\ closeCalls = 0
    /\ promises = <<>>
    /\ jobs = <<>>
    /\ process = "running"
    /\ errored = FALSE
    /\ unflushed = <<>>
    /\ stream = <<>>
    /\ frames = <<>>
    /\ timer = FALSE
    /\ batch = Batch
    /\ outcome = NoOutcome
    /\ locals = NoLocals

Next ==
    \/ \E data \in Chunks : PortData(data)
    \/ PortError
    \/ \E cmd \in Cmds : CallResponse(cmd)
    \/ CatchPassThrough
    \/ CatchPortError
    \/ Continue
    \/ \E cmd \in Cmds : ContinueWithRequest(cmd)

Spec == Init /\ [][Next]_vars

\* Any caller, any chunking, no transport errors; bytes and frames recorded.
NextFraming ==
    \/ \E data \in Chunks : FeedChunk(data)
    \/ \E cmd \in Cmds : CallResponse(cmd)
    \/ CatchPassThrough
    \/ Continue
    \/ \E cmd \in Cmds : ContinueWithRequest(cmd)

SpecFraming == Init /\ [][NextFraming]_vars

\* Single-caller discipline: a request is issued only after the previous
\* one settled.
NextInTurn ==
    \/ \E data \in Chunks : FeedChunk(data)
    \/ PortError
    \/ \E cmd \in Cmds : CallResponseInTurn(cmd)
    \/ CatchPassThrough
    \/ CatchPortError
    \/ Continue
    \/ \E cmd \in Cmds : ContinueWithRequest(cmd)

SpecInTurn == Init /\ [][NextInTurn]_vars

\* The scripts themselves: start-up, then the polling loop.
NextPoll ==
    \/ \E data \in Chunks : PortData(data)
    \/ PortError
    \/ MainStart
    \/ MainNext
    \/ MainSetInterval
    \/ MainReadSensor
    \/ MainCatch
    \/ IntervalTick
    \/ TimeoutFire
    \/ LoopDone
    \/ LoopRejected
    \/ CatchPassThrough
    \/ CatchPortError

SpecPoll == Init /\ [][NextPoll]_vars

\* The state after construction for one of `scripts`, with a receive buffer
\* of `cap` bytes.
InitWith(scripts, cap) ==
    /\ script \in scripts
    /\ recvBuffer = alloc(cap)
    /\ recvPosition = 0
    /\ onError = defaultErrorFunc
    /\ onData = defaultDataRecvFunc
    /\ written = <<>>
    /\ closeCalls = 0
    /\ promises = <<>>
    /\ jobs = <<>>
    /\ process = "running"
    /\ errored = FALSE
    /\ unflushed = <<>>
    /\ stream = <<>>
    /\ frames = <<>>
    /\ timer = FALSE
    /\ batch = Batch
    /\ outcome = NoOutcome
    /\ locals = NoLocals

\* Batch on the scripts that define it, one request at a time, with a
\* receive buffer of BatchCap bytes.
InitBatch == InitWith(BatchScripts, BatchCap)

NextBatch ==
    \/ /\ batch.index < MaxOps
       /\ \E addr \in Addrs, value \in Values : BatchWrite(addr, value, "undefined")
    \/ /\ batch.index < MaxOps
       /\ \E addr \in Addrs, width \in Widths : BatchRead(addr, width)
    \/ /\ batch.index < MaxOps
       /\ \E addr \in Addrs, bit \in Bits, value \in Values :
             BatchWait(addr, bit, value, "undefined")
    \/ BatchSetAsResult
    \/ BatchRun
    \/ BatchRunResume
    \/ \E data \in Replies : DeviceReply(data)
    \/ CatchPassThrough

SpecBatch == InitBatch /\ [][NextBatch]_vars

\* Batch.wait alone, over every bit index, expected value and width.
NextEncode ==
    /\ batch.index < MaxOps
    /\ \E addr \in Addrs, bit \in WaitBits, value \in WaitValues, width \in Widths :
          BatchWait(addr, bit, value, width)

SpecEncode == InitBatch /\ [][NextEncode]_vars

\* read(addr) and Batch.run() against a device that may answer with fields
\* that are no numbers; no transport errors.
DecodeScripts == WireScripts \cup {"sensor.js"}

InitDecode == InitWith(DecodeScripts, BatchCap)

NextDecode ==
    \/ /\ batch.index < MaxOps
       /\ \E addr \in Addrs : BatchRead(addr, "undefined")
    \/ BatchSetAsResult
    \/ BatchRun
    \/ BatchRunResume
    \/ \E addr \in Addrs : CallRead(addr)
    \/ ReadResume
    \/ \E data \in RepliesOf(script) : DeviceReply(data)
    \/ CatchPassThrough

SpecDecode == InitDecode /\ [][NextDecode]_vars

\* bitSet and bitClear, one call at a time.
NextRmw ==
    \/ /\ inTurn
       /\ \E addr \in Addrs, bits \in Masks : CallBitSet(addr, bits)
    \/ /\ inTurn
       /\ \E addr \in Addrs, bits \in Masks : CallBitClear(addr, bits)
    \/ BitResume
    \/ BitDone
    \/ Drain
    \/ \E data \in RepliesOf(script) : DeviceReply(data)
    \/ CatchPassThrough

SpecRmw == InitDecode /\ [][NextRmw]_vars

\* bitSet/bitClear with a direct write(addr, data) that another caller (a
\* timer callback) may issue at any time the event loop is idle.  Every
\* step that can be taken is taken eventually.
NextRace ==
    \/ /\ inTurn
       /\ \E addr \in Addrs, bits \in Masks : CallBitSet(addr, bits)
    \/ /\ inTurn
       /\ \E addr \in Addrs, bits \in Masks : CallBitClear(addr, bits)
    \/ \E addr \in Addrs, data \in Values : CallWrite(addr, data, "undefined")
    \/ BitResume
    \/ BitDone
    \/ WriteResume
    \/ \E data \in Replies : DeviceReply(data)
    \/ CatchPassThrough

SpecRace == InitWith(WireScripts, BatchCap) /\ [][NextRace]_vars /\ WF_vars(NextRace)

\* Batch.get() called between appends and runs.
NextGet ==
    \/ /\ batch.index < MaxOps
       /\ \E addr \in Addrs, value \in Values : BatchWrite(addr, value, "undefined")
    \/ /\ batch.index < MaxOps
       /\ \E addr \in Addrs : BatchRead(addr, "undefined")
    \/ BatchGet
    \/ BatchRun
    \/ BatchRunResume
    \/ \E data \in Replies : DeviceReply(data)
    \/ CatchPassThrough

SpecGet == InitBatch /\ [][NextGet]_vars

\* One Batch filled with reads up to and past the size of its chain array.
NextCap ==
    \/ /\ batch.index < MaxChain
       /\ \E addr \in Addrs : BatchRead(addr, "undefined")
    \/ BatchGet

SpecCap == InitBatch /\ [][NextCap]_vars

\* The direct write(addr, data) and read(addr), one request at a time.
\* Batch operations with every width argument, valid or not, on a Batch
\* that is marked and run in between.
NextWidth ==
    \/ /\ batch.index < MaxOps
       /\ \E addr \in Addrs, value \in Values, width \in Widths :
             BatchWrite(addr, value, width)
    \/ /\ batch.index < MaxOps
       /\ \E addr \in Addrs, width \in Widths : BatchRead(addr, width)
    \/ /\ batch.index < MaxOps
       /\ \E addr \in Addrs, bit \in Bits, value \in Values, width \in Widths :
             BatchWait(addr, bit, value, width)
    \/ BatchSetAsResult
    \/ BatchRun
    \/ BatchRunResume
    \/ DeviceReply(<<48, 0>>)
    \/ CatchPassThrough

SpecWidth == InitBatch /\ [][NextWidth]_vars

NextWire ==
    \/ /\ inTurn
       /\ \E addr \in Addrs, data \in Values, width \in Widths :
             CallWrite(addr, data, width)
    \/ WriteResume
    \/ \E addr \in Addrs : CallRead(addr)
    \/ ReadResume
    \/ \E data \in RepliesOf(script) : DeviceReply(data)
    \/ PortError
    \/ CatchPassThrough
    \/ CatchPortError

InitWire == InitWith(WireScripts, BatchCap)

SpecWire == InitWire /\ [][NextWire]_vars

\* ------------------------------------------------------------------ claims
NoPending == \A n \in 1..Len(promises) : promises[n].state # "pending"

Requests == 1..Len(promises)

\* C1 (as claimed): a response() call made while an earlier request is still
\* pending fails, nothing is written to the port for it and its handlers are
\* never installed in the slots.
C1_RequestInFlight ==
    \A n \in Requests :
        promises[n].overlapped =>
            /\ promises[n].state = "rejected"
            /\ \A i \in 1..Len(written) : written[i].req # n
            /\ onData # resolve(n)
            /\ onError # reject(n)

\* The frames the 'data' handler hands over when the byte stream `str` is
\* fed one terminated piece at a time, starting from buffer `buf`, cursor `pos`.
RECURSIVE framesWhole(_, _, _, _)
framesWhole(s, buf, pos, str) ==
    LET ends == {i \in 1..Len(str) : str[i] = Terminator(s)} IN
    IF ends = {} THEN <<>>
    ELSE LET k == CHOOSE i \in ends : \A j \in ends : i <= j
             r == received(s, buf, pos, SubSeq(str, 1, k))
         IN  <<r.frame>> \o framesWhole(s, r.buffer, r.position, SubSeq(str, k + 1, Len(str)))

\* C2 (as claimed): however the byte stream is split into chunks, the 'data'
\* handler hands over the same sequence of frames as when the stream is fed
\* one piece per frame.
C2_ChunkingIndependent ==
    [i \in 1..Len(frames) |-> frames[i].frame]
        = framesWhole(script, alloc(RecvCap), 0, stream)

\* C3 (as claimed): every frame handed to a pending request's data handler
\* is exactly the bytes buffered before the terminator, without the
\* terminator and without bytes beyond the write cursor.
C3_FrameIsPayload ==
    \A i \in 1..Len(frames) :
        frames[i].to.fn = "resolve" =>
            frames[i].frame = SubSeq(frames[i].buffered, 1, Len(frames[i].buffered) - 1)

\* C4 (as claimed): once every request has completed, by a frame or by an
\* error, both port.onData and port.onError hold their default handlers.
C4_BothDefault ==
    (jobs = <<>> /\ NoPending) =>
        /\ onData = defaultDataRecvFunc
        /\ onError = defaultErrorFunc

\* C5: when a frame or an error settles the pending request, the slot that
\* fired is back at its default before any reaction of that request runs; a
\* request issued from the continuation therefore holds both slots while it
\* is pending and is fulfilled by the next chunk that ends a frame.
C5_ClearedBeforeContinuation ==
    /\ \A j \in 1..Len(jobs) :
          /\ promises[jobs[j].req].state = "fulfilled" => onData = defaultDataRecvFunc
          /\ promises[jobs[j].req].state = "rejected" => onError = defaultErrorFunc
    /\ \A n \in Requests :
          (promises[n].from # 0 /\ n = Len(promises)) =>
              /\ promises[n].state = "pending" =>
                    (onData = resolve(n) /\ onError = reject(n))
              /\ promises[n].sawFrame => promises[n].state = "fulfilled"

C5_Witness ==
    /\ Len(promises) = 2
    /\ promises[1].state = "fulfilled"
    /\ promises[2].from = 1
    /\ promises[2].state = "fulfilled"
    /\ promises[2].outer = "fulfilled"

\* C6: a request whose reject is installed when the port emits 'error' is
\* rejected and stays rejected (no frame fulfils it afterwards); its .catch
\* handler runs before the next event and makes the caller's await throw;
\* port.close() is called once per failed request.
C6_ErrorRejectsAndCloses ==
    /\ \A n \in Requests :
          promises[n].sawError =>
              /\ promises[n].state = "rejected"
              /\ jobs = <<>> => (promises[n].outer = "rejected" /\ promises[n].caller = "threw")
    /\ closeCalls = Cardinality({n \in Requests : promises[n].outer = "rejected"})

C6_Witness ==
    \E n \in Requests :
        /\ promises[n].sawError
        /\ promises[n].caller = "threw"
        /\ closeCalls = 1

\* C7 (as claimed): a response() call made after the port was closed is
\* rejected by the time the call's microtasks have run, without waiting for
\* a frame or another event.
C7_FailsFast ==
    \A n \in Requests :
        (promises[n].afterClose /\ jobs = <<>>) => promises[n].state = "rejected"

\* C8: under single-caller discipline a request issued on an open port is
\* settled, and its caller resumed, as soon as a chunk ending in the
\* terminator or an 'error' event has arrived since it was issued; when it is
\* fulfilled, its value is the first frame completed after it was issued.
C8_SettledByFirstFrame ==
    \A n \in Requests :
        ~promises[n].afterClose =>
            /\ (jobs = <<>> /\ (promises[n].sawFrame \/ promises[n].sawError)) =>
                  /\ promises[n].state # "pending"
                  /\ promises[n].caller # "waiting"
            /\ promises[n].state = "fulfilled" =>
                  /\ Len(frames) > promises[n].framesBefore
                  /\ promises[n].value = frames[promises[n].framesBefore + 1].frame
                  /\ frames[promises[n].framesBefore + 1].to = resolve(n)

C8_Witness ==
    /\ Len(promises) = 2
    /\ promises[1].caller = "returned"
    /\ promises[2].from = 0
    /\ promises[2].caller = "returned"
    /\ Len(frames) = 2

\* C9 (as claimed): no call site issues response() while an earlier request
\* is unsettled.
C9_OneOutstanding ==
    \A n \in Requests : ~promises[n].overlapped

\* C10 (as claimed): an 'error' event that arrives while no request is
\* pending leaves the process running and the port state unchanged.
C10_ErrorSurvived ==
    [][(PortError /\ NoPending) =>
          /\ process' = "running"
          /\ UNCHANGED <<recvBuffer, recvPosition, onData, onError>>]_vars

\* C10 (amended): an 'error' event that arrives while no request is pending
\* settles no request, closes nothing and leaves buffer, cursor and
\* port.onData unchanged; when port.onError holds defaultErrorFunc it throws
\* out of the event handler, and when it still holds the reject of a settled
\* request the error is ignored and port.onError is reset to the default.
C10_ErrorWithoutRequest ==
    [][(PortError /\ NoPending) =>
          /\ UNCHANGED <<recvBuffer, recvPosition, onData, promises, jobs, closeCalls>>
          /\ IF onError = defaultErrorFunc
             THEN process' = "uncaughtException" /\ onError' = onError
             ELSE process' = "running" /\ onError' = defaultErrorFunc]_vars

C10_Witness ==
    /\ script = "sensor.js"
    /\ promises = <<>>
    /\ process = "uncaughtException"

\* C11 (as claimed): a chunk that completes a frame while no request is
\* pending and port.onData holds its default is logged and discarded: the
\* process keeps running, no promise is touched, no reaction is queued and
\* the port is ready for the next request (cursor 0, default data handler).
C11_StrayFrameDiscarded ==
    [][(\E data \in Chunks :
            /\ PortData(data)
            /\ data[Len(data)] = Terminator(script)
            /\ onData = defaultDataRecvFunc
            /\ NoPending) =>
          /\ process' = "running"
          /\ UNCHANGED <<promises, jobs>>
          /\ recvPosition' = 0
          /\ onData' = defaultDataRecvFunc]_vars

\* C12 (as claimed): while the bytes received since the last frame hold no
\* terminator, the write cursor never passes the end of the receive buffer
\* and every one of those bytes is in the buffer (none was dropped).
C12_NoSilentOverflow ==
    (\A i \in 1..Len(unflushed) : unflushed[i] # Terminator(script)) =>
        /\ recvPosition <= Len(recvBuffer)
        /\ Len(unflushed) <= Len(recvBuffer)
        /\ \A i \in 1..Min(Len(unflushed), Len(recvBuffer)) : recvBuffer[i] = unflushed[i]

\* C13: every Batch.run() writes to the port the command the first run()
\* wrote, whatever was appended to the batch in between.
C13_CacheStable ==
    \A i \in 1..Len(written) : written[i].cmd = written[1].cmd

C13_Witness ==
    /\ Len(written) = 2
    /\ batch.index = 2
    /\ Len(split(written[1].cmd)) = 1
    /\ written[2].cmd = written[1].cmd

\* C14: with two or more result marks m1..mk, run() returns the list
\* [field[m1], ..., field[mk]] of the decoded response, in mark order
\* (field[m] is undefined where the response has no field m).
C14_ProjectsInMarkOrder ==
    (outcome.call = "run" /\ outcome.threw = "" /\ Len(batch.resultCommand) >= 2) =>
        LET field == decoded(promises[outcome.req].value)
            m == batch.resultCommand
        IN  /\ ~outcome.scalar
            /\ Len(outcome.value) = Len(m)
            /\ \A i \in 1..Len(m) :
                  outcome.value[i] = IF m[i] >= 0 /\ m[i] < Len(field)
                                     THEN field[m[i] + 1] ELSE undefined

C14_Witness ==
    /\ outcome.call = "run"
    /\ batch.resultCommand = <<0, 1>>
    /\ outcome.value = <<Num(10), Num(11)>>

\* C15: with exactly one result mark k, run() returns the bare field[k],
\* not a list.
C15_OneMarkIsScalar ==
    (outcome.call = "run" /\ outcome.threw = "" /\ Len(batch.resultCommand) = 1) =>
        LET field == decoded(promises[outcome.req].value)
            k == batch.resultCommand[1]
        IN  /\ outcome.scalar
            /\ outcome.value = <<IF k >= 0 /\ k < Len(field) THEN field[k + 1] ELSE undefined>>

C15_Witness ==
    /\ outcome.call = "run"
    /\ batch.resultCommand = <<1>>
    /\ outcome.scalar
    /\ outcome.value = <<Num(11)>>

\* C16 (as claimed): with no result mark, run() returns the whole list of
\* decoded response fields.
C16_NoMarkIsFullList ==
    (outcome.call = "run" /\ outcome.threw = "" /\ batch.resultCommand = <<>>) =>
        /\ ~outcome.scalar
        /\ outcome.value = decoded(promises[outcome.req].value)

\* C17: run() on a batch without operations fails with 'Empty batch': nothing
\* is written, no handler is installed, no promise is made and the cache
\* stays unset.
C17_EmptyBatchFails ==
    [][(BatchRun /\ batch.index = 0) =>
          /\ outcome' = Threw("run", "Empty batch")
          /\ batch'.cache = <<>>
          /\ UNCHANGED <<batch, written, onData, onError, promises, jobs>>]_vars

C17_Witness ==
    /\ outcome = Threw("run", "Empty batch")
    /\ batch.index = 0
    /\ written = <<>>
    /\ onData = defaultDataRecvFunc

\* C18: the run() that serializes a batch of n >= 1 operations writes a
\* command that ends in one line terminator, holds no other one, and whose
\* text before it splits at '|' into exactly the n operations in append order.
C18_JoinedByBar ==
    [][(BatchRun /\ batch.cache = <<>> /\ batch.index >= 1) =>
          LET cmd == written'[Len(written')].cmd
              body == SubSeq(cmd, 1, Len(cmd) - 1)
          IN  /\ Len(written') = Len(written) + 1
              /\ cmd[Len(cmd)] = ascii.nl
              /\ \A i \in 1..Len(body) : body[i] # ascii.nl
              /\ split(body) = SubSeq(batch.chain, 1, batch.index)
              /\ batch'.cache = <<cmd>>]_vars

C18_Witness ==
    /\ Len(written) = 1
    /\ batch.index = 2
    /\ Len(split(written[1].cmd)) = 2
    /\ batch.cache = <<written[1].cmd>>

\* C19: write(0x40005400, 0x101) without a width writes "w 40005400 101\n",
\* and a read() answered by the frame "0" NUL returns the number 0.
C19_WriteAndDecode ==
    [][/\ (\E addr \in Addrs : CallWrite(addr, 257, "undefined")) =>
              written'[Len(written')].cmd =
                  <<119, 32, 52, 48, 48, 48, 53, 52, 48, 48, 32, 49, 48, 49, 10>>
       /\ (/\ ReadResume
           /\ promises[Head(jobs).req].outer = "fulfilled"
           /\ SubSeq(promises[Head(jobs).req].value, 1, 2) = <<48, 0>>) =>
              outcome' = [NoOutcome EXCEPT !.call = "read", !.scalar = TRUE,
                                           !.value = <<Num(0)>>,
                                           !.req = Head(jobs).req]]_vars

C19_Witness ==
    /\ Len(written) = 2
    /\ written[1].cmd = <<119, 32, 52, 48, 48, 48, 53, 52, 48, 48, 32, 49, 48, 49, 10>>
    /\ outcome.call = "read"
    /\ outcome.value = <<Num(0)>>

\* C20 (as claimed): no command written to the port and no operation of a
\* batch holds a '-' sign.
C20_NoMinusSign ==
    /\ \A i \in 1..Len(written) : \A j \in 1..Len(written[i].cmd) :
          written[i].cmd[j] # ascii.minus
    /\ \A i \in 1..Len(batch.chain) : \A j \in 1..Len(batch.chain[i]) :
          batch.chain[i][j] # ascii.minus

\* C21 (as claimed): every Batch operation appended without a width carries
\* no modifier after its command letter, widths 1, 2 and 4 give 'b', 'w' and
\* 'd', and any other width fails with 'Unknown width modifier' and appends
\* nothing.
C21_WidthModifier ==
    [][LET op == batch'.chain[Len(batch'.chain)]
           space == CHOOSE i \in 1..Len(op) :
                       op[i] = ascii.sp /\ \A j \in 1..(i - 1) : op[j] # ascii.sp
           encodes(width) ==
               IF width = "undefined" \/ width \in {"1", "2", "4"}
               THEN /\ batch'.index = batch.index + 1
                    /\ SubSeq(op, 2, space - 1) =
                          (IF width = "undefined" THEN <<>>
                           ELSE IF width = "1" THEN <<ascii.b>>
                           ELSE IF width = "2" THEN <<ascii.w>>
                           ELSE <<ascii.d>>)
               ELSE /\ batch' = batch
                    /\ outcome'.threw = "Unknown width modifier"
       IN  \A addr \in Addrs :
              /\ \A width \in Widths : BatchRead(addr, width) => encodes(width)
              /\ \A value \in Values :
                    BatchWrite(addr, value, "undefined") => encodes("undefined")
              /\ \A bit \in Bits, value \in Values :
                    BatchWait(addr, bit, value, "undefined") => encodes("undefined")]_vars

\* C22: the wait id Batch.wait encodes is a number in 0..63 whose bit 5 is
\* the low bit of the expected value and whose low five bits are the bit
\* index modulo 32.
C22_WaitId ==
    [][\A addr \in Addrs, bit \in WaitBits, value \in WaitValues, width \in Widths :
          (BatchWait(addr, bit, value, width) /\ batch' # batch) =>
              LET op == batch'.chain[Len(batch'.chain)]
                  space == CHOOSE i \in 1..Len(op) :
                              op[i] = ascii.sp /\ \A j \in (i + 1)..Len(op) : op[j] # ascii.sp
                  id == parseInt16(SubSeq(op, space + 1, Len(op)))
              IN  /\ id.kind = "number"
                  /\ id.num \in 0..63
                  /\ id.num \div 32 = value % 2
                  /\ id.num % 32 = bit % 32]_vars

C22_Witness ==
    /\ outcome.call = "Batch.wait"
    /\ batch.index = 1
    /\ batch.chain[1] = <<117, 32, 52, 48, 48, 48, 53, 52, 48, 48, 32, 50, 53>>

\* C23 (as claimed): read() and Batch.run() return a result only when every
\* field of the response parsed as a hexadecimal number.
C23_MalformedRejected ==
    /\ (outcome.call = "read" /\ outcome.req > 0) =>
          /\ parseInt16(promises[outcome.req].value) # NaN
          /\ outcome.value[1].kind = "number"
    /\ (outcome.call = "run" /\ outcome.req > 0) =>
          LET field == decoded(promises[outcome.req].value)
          IN  \A i \in 1..Len(field) : field[i] # NaN

\* C24: with one call at a time, every write-back of bitSet/bitClear is the
\* request right after the call's one read request, is issued after the
\* read's response arrived, is the only request issued from that read, and
\* carries (read value OR bits) for bitSet, (read value AND NOT bits) for
\* bitClear; a call whose read returned has issued its write-back.
C24_ReadModifyWrite ==
    /\ \A n \in 1..Len(promises) : promises[n].site = "write-back" =>
          LET r == promises[n].from
              cmd == promises[n].cmd
              body == SubSeq(cmd, 1, Len(cmd) - 1)
              space == CHOOSE i \in 1..Len(body) :
                          body[i] = ascii.sp /\ \A j \in (i + 1)..Len(body) : body[j] # ascii.sp
              w == parseInt16(SubSeq(body, space + 1, Len(body)))
              v == toInt32(parseInt16(promises[r].value))
              bit(x, i) == (x \div (2 ^ i)) % 2
          IN  /\ r = n - 1
              /\ promises[r].site \in {"bitSet", "bitClear"}
              /\ promises[r].state = "fulfilled"
              /\ written[r].cmd = req_read(script, 1073763328)
              /\ written[n].cmd = cmd
              /\ cmd[1] = IF script = "sensor.js" THEN ascii.a ELSE ascii.w
              /\ \A k \in 1..Len(promises) : promises[k].from = r => k = n
              /\ locals.req = r =>
                    /\ w.kind = "number"
                    /\ w.num \in 0..1023
                    /\ \A i \in 0..9 :
                          bit(w.num, i) =
                              IF promises[r].site = "bitSet"
                              THEN (IF bit(v, i) = 1 \/ bit(locals.bits, i) = 1 THEN 1 ELSE 0)
                              ELSE (IF bit(v, i) = 1 /\ bit(locals.bits, i) = 0 THEN 1 ELSE 0)
    /\ \A r \in 1..Len(promises) :
          (/\ promises[r].site \in {"bitSet", "bitClear"}
           /\ promises[r].caller = "returned"
           /\ (parseInt16(promises[r].value) # NaN \/ script = "sensor.js")) =>
              \E n \in 1..Len(promises) :
                  promises[n].from = r /\ promises[n].site = "write-back"

C24_Witness ==
    /\ script = "gy33-i2c.js"
    /\ outcome.call = "bitClear"
    /\ outcome.req = 2
    /\ Len(written) = 2
    /\ written[1].cmd = <<114, 32, 52, 48, 48, 48, 53, 52, 48, 48, 10>>
    /\ written[2].cmd = <<119, 32, 52, 48, 48, 48, 53, 52, 48, 48, 32, 56, 10>>

C26_GetMemoized ==
    (outcome.call = "get" /\ outcome.threw = "" /\ batch.cache # <<>>) =>
        outcome.text = batch.cache[1]

\* C27 (as claimed): every setAsResult call appends the index of the most
\* recently appended operation to the marks, and none fails.
C27_AnyNumberOfMarks ==
    [][BatchSetAsResult =>
          /\ batch'.resultCommand = Append(batch.resultCommand, batch.index - 1)
          /\ outcome'.threw = ""]_vars

\* C27 (amended): in gy33-i2c.js and part_002 every setAsResult call appends
\* the index of the most recently appended operation to the marks and none
\* fails; in part_000 the first call sets the one result index and every
\* later call fails with 'Result is already set' and leaves the Batch as it was.
C27_MarksByScript ==
    [][BatchSetAsResult =>
          IF script = "part_000" /\ batch.resultCommand # <<>>
          THEN /\ batch' = batch
               /\ outcome' = Threw("setAsResult", "Result is already set")
          ELSE /\ batch' = [batch EXCEPT !.resultCommand = Append(@, batch.index - 1)]
               /\ outcome'.threw = ""]_vars

C27_Witness ==
    /\ script = "part_000"
    /\ outcome = Threw("setAsResult", "Result is already set")
    /\ batch.resultCommand = <<0>>
    /\ batch.index = 2

\* C28 (as claimed): a run() returns a result only when the response has as
\* many fields as the command sent has operations, and no returned slot is
\* filled from a field the response lacks.
C28_FieldCountMatches ==
    (outcome.call = "run" /\ outcome.req > 0) =>
        /\ Len(decoded(promises[outcome.req].value)) =
              Len(split(promises[outcome.req].cmd))
        /\ \A i \in 1..Len(outcome.value) : outcome.value[i] # undefined

\* C29 (as claimed): a Batch never holds more than 50 operations, nor does
\* the text get() returns.
C29_AtMostFifty ==
    /\ batch.index <= ChainSize
    /\ Len(batch.chain) <= ChainSize
    /\ (outcome.call = "get" /\ outcome.threw = "") =>
          Len(split(outcome.text)) <= ChainSize

\* C30: when read() has failed with 'Response parser error' the port is not
\* closed, no request is pending, port.onData is the default handler and the
\* cursor is 0; the next read() is written to the port with its resolve
\* installed, and the next frame fulfils it with that frame.
C30_UsableAfterParserError ==
    /\ [](outcome = Threw("read", "Response parser error") =>
            /\ isOpen
            /\ process = "running"
            /\ NoPending
            /\ onData = defaultDataRecvFunc
            /\ recvPosition = 0)
    /\ [][/\ (outcome = Threw("read", "Response parser error")
              /\ \E addr \in Addrs : CallRead(addr)) =>
                 /\ written' = Append(written, [req |-> Len(promises) + 1,
                                                cmd |-> req_read(script, 1073763328)])
                 /\ onData' = resolve(Len(promises) + 1)
                 /\ promises'[Len(promises) + 1].state = "pending"
          /\ \A n \in 2..Len(promises), data \in RepliesOf(script) :
                (/\ promises[n - 1].site = "read"
                 /\ parseInt16(promises[n - 1].value) = NaN
                 /\ script # "sensor.js"
                 /\ promises[n].state = "pending"
                 /\ DeviceReply(data)) =>
                    /\ promises'[n].state = "fulfilled"
                    /\ SubSeq(promises'[n].value, 1, Len(data)) = data
                    /\ closeCalls' = 0]_vars

C30_Witness ==
    /\ Len(promises) = 2
    /\ promises[1].site = "read"
    /\ promises[1].caller = "returned"
    /\ parseInt16(promises[1].value) = NaN
    /\ script = "gy33-i2c.js"
    /\ promises[2].site = "read"
    /\ outcome.call = "read"
    /\ outcome.req = 2
    /\ closeCalls = 0

\* C31: a chunk whose last byte is not the terminator hands over no frame,
\* settles no request, leaves both handler slots as they were and advances
\* recvPosition by its length; a chunk whose last byte is the terminator
\* hands over exactly one frame, to the handler installed at that time, and
\* leaves recvPosition at 0.
C31_FrameCursor ==
    [][\A data \in Chunks :
          FeedChunk(data) =>
              IF data[Len(data)] # Terminator(script)
              THEN /\ frames' = frames
                   /\ UNCHANGED <<onData, onError, jobs, process>>
                   /\ \A n \in Requests : promises'[n].state = promises[n].state
                   /\ recvPosition' = recvPosition + Len(data)
              ELSE /\ Len(frames') = Len(frames) + 1
                   /\ frames'[Len(frames')].to = onData
                   /\ onData.fn = "resolve" => promises'[onData.req].state # "pending"
                   /\ recvPosition' = 0]_vars

C31_Witness ==
    /\ script = "gy33-i2c.js"
    /\ stream = <<0, 10>>
    /\ Len(frames) = 1
    /\ recvPosition = 1

\* C32: each call of response(req) writes req to the port exactly once, and
\* nothing else writes: the only steps that extend the written commands are
\* the caller's own write()/read() calls, each adding one entry for its own
\* new request; after a port error or a parser error no step sends the
\* failed command again.
C32_NoRetry ==
    /\ [](/\ Len(written) = Len(promises)
          /\ \A n \in Requests : written[n] = [req |-> n, cmd |-> promises[n].cmd])
    /\ [][written' # written =>
             /\ \/ \E addr \in Addrs, data \in Values, width \in Widths :
                      CallWrite(addr, data, width)
                \/ \E addr \in Addrs : CallRead(addr)
             /\ written' = Append(written, [req |-> Len(promises) + 1,
                                            cmd |-> promises'[Len(promises) + 1].cmd])]_vars

\* a command failed on a port error, its caller saw the failure, and the
\* wire holds that command once, followed by the caller's next command.
C32_Witness ==
    /\ Len(promises) = 2
    /\ Len(written) = 2
    /\ promises[1].outer = "rejected"
    /\ closeCalls = 1
    /\ written[1].req = 1
    /\ written[2].req = 2

\* C33 (as claimed): what Batch.run() decodes depends only on the bytes of
\* the frame that resolved this run, up to its terminator: decoding the
\* response the run was given yields the same fields as decoding those bytes
\* alone, so nothing left in the receive buffer by an earlier, longer
\* response shows up as a field.
C33_OnlyThisFrame ==
    (outcome.call = "run" /\ outcome.req > 0) =>
        LET resp == promises[outcome.req].value
            end == CHOOSE k \in 1..Len(resp) :
                       resp[k] = 0 /\ \A j \in 1..(k - 1) : resp[j] # 0
        IN  decoded(resp) = decoded(SubSeq(resp, 1, end - 1))

\* C34 (as claimed): the frame that resolves a request holds only bytes
\* received after the request was written: it begins with the first byte that
\* arrived after response() was called, and unterminated bytes buffered
\* before the call are not in front of it.
C34_OnlyBytesAfter ==
    \A n \in Requests :
        (promises[n].state = "fulfilled" /\ Len(frames) > promises[n].framesBefore) =>
            LET f == frames[promises[n].framesBefore + 1]
                after == SubSeq(f.buffered, promises[n].bytesBefore + 1, Len(f.buffered))
            IN  (f.to = resolve(n) /\ Len(f.buffered) <= Len(recvBuffer)) =>
                    SubSeq(promises[n].value, 1, Len(after)) = after

\* C35: when response() is called while an earlier request is pending, the
\* new command is written as well and both slots pass to the new request; a
\* completed frame fulfils the request whose resolve holds port.onData, so
\* the first frame after the call goes to the second request; and a pending
\* request that has lost both slots stays pending at every later step,
\* whatever frame or error arrives.
C35_SecondTakesOver ==
    /\ [][\A cmd \in Cmds :
             ((CallResponse(cmd) \/ ContinueWithRequest(cmd)) /\ ~NoPending) =>
                 /\ written' = Append(written, [req |-> Len(promises) + 1, cmd |-> cmd])
                 /\ onData' = resolve(Len(promises) + 1)
                 /\ onError' = reject(Len(promises) + 1)]_vars
    /\ [][\A data \in Chunks :
             (/\ PortData(data)
              /\ received(script, recvBuffer, recvPosition, data).complete
              /\ onData.fn = "resolve"
              /\ promises[onData.req].state = "pending") =>
                 /\ promises'[onData.req].state = "fulfilled"
                 /\ \A m \in Requests \ {onData.req} :
                       promises'[m].state = promises[m].state]_vars
    /\ [][\A m \in Requests :
             (/\ promises[m].state = "pending"
              /\ onData # resolve(m)
              /\ onError # reject(m)) =>
                 /\ promises'[m].state = "pending"
                 /\ onData' # resolve(m)
                 /\ onError' # reject(m)]_vars

\* the second request was made while the first was pending, a frame
\* fulfilled the second, an error followed, and the first is still pending.
C35_Witness ==
    /\ Len(promises) = 2
    /\ Len(written) = 2
    /\ promises[2].overlapped
    /\ promises[2].state = "fulfilled"
    /\ promises[1].state = "pending"
    /\ errored

\* C36: in the scripts whose polling loop is readSensor re-arming a
\* setTimeout, the timer is armed only while every request of the loop has
\* settled and its await has returned, and no request of the loop is issued
\* while an earlier request is pending: two iterations never have requests
\* outstanding together, however late the device answers.
C36_RearmAfterSettled ==
    LoopOf(script) = "setTimeout" =>
        /\ timer => \A n \in Requests :
                       promises[n].site = "loop" =>
                           /\ promises[n].state # "pending"
                           /\ promises[n].caller # "waiting"
        /\ \A n \in Requests : promises[n].site = "loop" => ~promises[n].overlapped
        /\ \A m, n \in Requests :
              (m # n /\ promises[m].site = "loop" /\ promises[n].site = "loop") =>
                  ~(promises[m].state = "pending" /\ promises[n].state = "pending")

\* readSensor has run twice and has re-armed its timer after the second
\* iteration's response.
C36_Witness ==
    /\ script = "gy33-i2c.js"
    /\ Len(promises) = 3
    /\ promises[2].site = "loop"
    /\ promises[3].site = "loop"
    /\ promises[3].caller = "returned"
    /\ timer

\* C37 (as claimed): in sensor.js, when a frame arrives while port.onData is
\* the default handler and no write() is awaiting its drain, port.onError is
\* the default error handler, so defaultDataRecvFunc does not take a write to
\* be in progress and calls no error continuation of a request that has
\* already completed.
C37_NoStaleContinuation ==
    [][\A data \in Chunks :
          (/\ script = "sensor.js"
           /\ PortData(data)
           /\ received(script, recvBuffer, recvPosition, data).complete
           /\ onData = defaultDataRecvFunc
           /\ \A n \in Requests :
                 ~(promises[n].site = "write" /\ promises[n].state = "pending")) =>
              onError = defaultErrorFunc]_vars

\* C38 (as claimed): every result mark of a Batch refers to an operation
\* the Batch holds: each marked index lies in 0..index-1, and in particular
\* setAsResult() on a Batch without operations does not record -1.
C38_MarksExist ==
    \A i \in 1..Len(batch.resultCommand) :
        batch.resultCommand[i] \in 0..(batch.index - 1)

\* C39: a Batch write, read or wait call that fails with 'Unknown width
\* modifier' leaves the Batch as it was: the operation count, the chain, the
\* result marks and the cache are the same after the call as before it.
C39_FailedCallKeepsBatch ==
    [][\A addr \in Addrs, bit \in Bits, value \in Values, width \in Widths :
          (/\ \/ BatchWrite(addr, value, width)
              \/ BatchRead(addr, width)
              \/ BatchWait(addr, bit, value, width)
           /\ outcome'.threw = "Unknown width modifier") =>
              /\ batch'.index = batch.index
              /\ batch'.chain = batch.chain
              /\ batch'.resultCommand = batch.resultCommand
              /\ batch'.cache = batch.cache]_vars

\* a Batch of one operation, marked and run, on which read() has then
\* failed on the width.
C39_Witness ==
    /\ outcome = Threw("Batch.read", "Unknown width modifier")
    /\ batch.index = 1
    /\ batch.resultCommand = <<0>>
    /\ batch.cache # <<>>
    /\ Len(promises) = 1

====
